---- MODULE Spec2Model ----
(***************************************************************************)
(* A model of layout.py: the layout tree (Object and its subclasses), the  *)
(* width/height properties, add, prepare and render, and the calls the     *)
(* tree makes on a Renderer.                                               *)
(*                                                                         *)
(* The objects live in a store, objs, a function from object identities to *)
(* records of the attributes __init__ sets.  An operation of the code is   *)
(* an operator that takes the store (and the list of renderer calls made   *)
(* so far) and returns them as the operation leaves them: a property       *)
(* getter of VLayout/HLayout assigns self._w/self._h while it computes, so *)
(* even a read returns a store.  An exception ends the operation where it  *)
(* is raised and keeps the assignments made before it.                     *)
(***************************************************************************)
EXTENDS Integers, Sequences, FiniteSets, TLC

\* ----------------------------------------------------------------- bounds
\* Explicit dimensions given to constructors and setters range over 0..MaxDim.
MaxDim == 1
\* Offsets given to add() have coordinates in -MaxOff..MaxOff.
MaxOff == 1
\* Style paddings range over 0..MaxPad.
MaxPad == 1
\* DottedLine coordinates range over 0..MaxCoord, dash_len over 1..MaxDash.
MaxCoord == 5
MaxDash == 3
\* A TextBox's explicit dimensions range over 0..MaxBox.
MaxBox == 3

\* ------------------------------------------------------------ Python values
\* An attribute that is None or an int is the empty tuple or <<int>>.
None == <<>>
Some(v) == <<v>>
Val(o) == o[1]

\* What a property access returns: the store as the access leaves it, whether
\* it raised (the AssertionError of a getter), and the value when it did not.
Ok(st, v) == [st |-> st, raised |-> FALSE, val |-> Some(v)]
Fail(st) == [st |-> st, raised |-> TRUE, val |-> None]

Max(a, b) == IF a >= b THEN a ELSE b

\* Python's truth value of an int-or-None: None and 0 are false.
Truthy(v) == v /= None /\ v /= Some(0)

\* Python's `a or b`.
Or(a, b) == IF Truthy(a) THEN a ELSE b

\* --------------------------------------------------------------- Point (P)
\* point.Point: a pair of coordinates with component-wise arithmetic; a
\* scalar operand applies to both coordinates.
P(x, y) == <<x, y>>
PAdd(p, q) == <<p[1] + q[1], p[2] + q[2]>>
PSub(p, q) == <<p[1] - q[1], p[2] - q[2]>>
PAddScalar(p, s) == <<p[1] + s, p[2] + s>>
PMulScalar(p, s) == <<p[1] * s, p[2] * s>>

\* ------------------------------------------------------------------- state
VARIABLES
    objs,     \* the objects: identity -> attributes
    ctor,     \* identity -> the width/height arguments its constructor got
    measure,  \* the renderer's text_bbox answer, <<right, bottom>>
    ret,      \* the last operation: what was called, on what, what it returned
    log       \* the method entries and renderer calls of the last operation

vars == <<objs, ctor, measure, ret, log>>

Dims == {Some(v) : v \in 0..MaxDim}
OptDims == Dims \cup {None}
Offs == (-MaxOff)..MaxOff
\* add()'s default offset, and one offset negative on each axis.
Offsets == {P(0, 0), P(MaxOff, -MaxOff), P(-MaxOff, MaxOff)}
Pads == 0..MaxPad

\* ------------------------------------------------------------ construction
\* Object.__init__: style (of which only the padding is read), _w, _h, no
\* children, no parent.  The other attributes are those of the subclasses.
ObjectInit(kind, width, height, padding) ==
    [kind |-> kind, w |-> width, h |-> height, children |-> <<>>,
     parent |-> None, padding |-> padding, align |-> "left",
     start |-> P(0, 0), end |-> P(0, 0), dash_len |-> 0]

\* Spacer.__init__
SpacerInit(width, height, padding) ==
    LET o == ObjectInit("Spacer", width, height, padding)
    IN [o EXCEPT !.w = Or(o.w, Some(o.padding)),
                 !.h = Or(o.h, Some(o.padding))]

\* Text.__init__
TextInit(width, height, align) ==
    [ObjectInit("Text", width, height, 0) EXCEPT !.align = align]

\* Line.__init__ and DottedLine.__init__
LineInit(kind, start, end, dash_len) ==
    [ObjectInit(kind, Some(Max(start[1], end[1])),
                Some(Max(start[2], end[2])), 0)
        EXCEPT !.start = start, !.end = end, !.dash_len = dash_len]

\* Object.add
ObjectAdd(st, n, obj, pos) ==
    [st EXCEPT ![n].children = Append(@, [obj |-> obj, off |-> pos]),
               ![obj].parent = Some(n)]

\* TextBox.__init__ with the default align, MIDDLE_MIDDLE, and explicit
\* width and height (without them self.width raises and no TextBox comes to
\* be): the objects n, the TextBox, and t, its Text, given the same width
\* and height and added at the centre.
TextBoxInit(n, t, width, height) ==
    LET st == [i \in {n, t} |->
                 IF i = n THEN ObjectInit("TextBox", width, height, 0)
                 ELSE TextInit(width, height, "left")]
    IN ObjectAdd(st, n, t, P(Val(width) \div 2, Val(height) \div 2))

\* ---------------------------------------------------------- width / height
RECURSIVE GetWidth(_, _), GetHeight(_, _)
RECURSIVE VLayoutWidthLoop(_, _, _), VLayoutHeightLoop(_, _, _)
RECURSIVE HLayoutWidthLoop(_, _, _), HLayoutHeightLoop(_, _, _)

\* An Object.width that reads an unset width as 0.
ObjectWidthOrZero(st, n) ==
    IF st[n].w = None THEN Ok(st, 0) ELSE Ok(st, Val(st[n].w))

\* Object.width (and TextBox.width): the assertion, then the stored value.
ObjectWidth(st, n) ==
    IF st[n].w = None THEN Fail(st) ELSE Ok(st, Val(st[n].w))

\* Object.height (and TextBox.height)
ObjectHeight(st, n) ==
    IF st[n].h = None THEN Fail(st) ELSE Ok(st, Val(st[n].h))

\* VLayout.width: the loop from the i-th child on.
VLayoutWidthLoop(st, n, i) ==
    IF i > Len(st[n].children) THEN Ok(st, Val(st[n].w))
    ELSE LET c == st[n].children[i]
             r == GetWidth(st, c.obj)
         IN IF r.raised THEN r
            ELSE VLayoutWidthLoop(
                   [r.st EXCEPT ![n].w =
                              Some(Max(Val(@), Val(r.val) + c.off[1]))],
                   n, i + 1)

\* A VLayout.width that keeps a value once it has one.
VLayoutWidthCached(st, n) ==
    IF st[n].w /= None THEN Ok(st, Val(st[n].w))
    ELSE VLayoutWidthLoop([st EXCEPT ![n].w = Some(0)], n, 1)

\* VLayout.width
VLayoutWidth(st, n) ==
    VLayoutWidthLoop([st EXCEPT ![n].w = Some(0)], n, 1)

\* VLayout.height: the loop from the i-th child on.
VLayoutHeightLoop(st, n, i) ==
    IF i > Len(st[n].children) THEN Ok(st, Val(st[n].h))
    ELSE LET c == st[n].children[i]
             r == GetHeight(st, c.obj)
         IN IF r.raised THEN r
            ELSE VLayoutHeightLoop(
                   [r.st EXCEPT ![n].h =
                              Some(Val(@) + Val(r.val) + c.off[2])],
                   n, i + 1)

\* VLayout.height
VLayoutHeight(st, n) ==
    VLayoutHeightLoop([st EXCEPT ![n].h = Some(0)], n, 1)

\* HLayout.width: the loop from the i-th child on.
HLayoutWidthLoop(st, n, i) ==
    IF i > Len(st[n].children) THEN Ok(st, Val(st[n].w))
    ELSE LET c == st[n].children[i]
             r == GetWidth(st, c.obj)
         IN IF r.raised THEN r
            ELSE HLayoutWidthLoop(
                   [r.st EXCEPT ![n].w =
                              Some(Val(@) + Val(r.val) + c.off[1])],
                   n, i + 1)

\* HLayout.width
HLayoutWidth(st, n) ==
    HLayoutWidthLoop([st EXCEPT ![n].w = Some(0)], n, 1)

\* HLayout.height: the loop from the i-th child on.
HLayoutHeightLoop(st, n, i) ==
    IF i > Len(st[n].children) THEN Ok(st, Val(st[n].h))
    ELSE LET c == st[n].children[i]
             r == GetHeight(st, c.obj)
         IN IF r.raised THEN r
            ELSE HLayoutHeightLoop(
                   [r.st EXCEPT ![n].h =
                              Some(Max(Val(@), Val(r.val) + c.off[2]))],
                   n, i + 1)

\* HLayout.height
HLayoutHeight(st, n) ==
    HLayoutHeightLoop([st EXCEPT ![n].h = Some(0)], n, 1)

\* obj.width: the property of obj's class (Table inherits HLayout's).
GetWidth(st, n) ==
    CASE st[n].kind = "VLayout" -> VLayoutWidth(st, n)
      [] st[n].kind \in {"HLayout", "Table"} -> HLayoutWidth(st, n)
      [] OTHER -> ObjectWidth(st, n)

\* obj.height
GetHeight(st, n) ==
    CASE st[n].kind = "VLayout" -> VLayoutHeight(st, n)
      [] st[n].kind \in {"HLayout", "Table"} -> HLayoutHeight(st, n)
      [] OTHER -> ObjectHeight(st, n)

\* What an assignment or a call without a result returns.
Stored(st) == [st |-> st, raised |-> FALSE, val |-> None]

\* obj.width = val: every class's setter stores the value.
SetWidth(st, n, val) == Stored([st EXCEPT ![n].w = val])

\* A TextBox.height setter that stores the value and leaves the child.
TextBoxSetHeightOnly(st, n, val) == Stored([st EXCEPT ![n].h = val])

\* TextBox.height = val: stores the value, then recentres the text child.
TextBoxSetHeight(st, n, val) ==
    LET s1 == [st EXCEPT ![n].h = val]
        rw == ObjectWidth(s1, n)
        rh == ObjectHeight(rw.st, n)
    IN IF rw.raised THEN rw
       ELSE IF rh.raised THEN rh
       ELSE Stored([rh.st EXCEPT ![n].children[1].off =
                                   P(Val(rw.val) \div 2, Val(rh.val) \div 2)])

\* obj.height = val
SetHeight(st, n, val) ==
    IF st[n].kind = "TextBox" THEN TextBoxSetHeight(st, n, val)
    ELSE Stored([st EXCEPT ![n].h = val])

\* ------------------------------------------------------------ renderer log
\* One entry of the log: a method entry of the tree ("prepare", "render") or
\* a call on the renderer ("rectangle", "line", "text", "text_bbox",
\* "set_dimensions"), the object that made it and its point arguments.
Entry(call, by, p1, p2) == [call |-> call, by |-> by, p1 |-> p1, p2 |-> p2]

\* An operation in progress: the store, the log, and whether no exception
\* has been raised.
Ctx(st, lg, ok) == [st |-> st, log |-> lg, ok |-> ok]

Logged(c, e) == [c EXCEPT !.log = Append(@, e)]
Raised(c) == [c EXCEPT !.ok = FALSE]

\* ----------------------------------------------------------------- prepare
RECURSIVE Prepare(_, _), PrepareChildren(_, _, _)
RECURSIVE TableMaxLoop(_, _, _), TableSetLoop(_, _, _)

\* Object.prepare: the loop from the i-th child on.
PrepareChildren(c, n, i) ==
    IF ~c.ok \/ i > Len(c.st[n].children) THEN c
    ELSE PrepareChildren(Prepare(c, c.st[n].children[i].obj), n, i + 1)

\* Object.prepare
ObjectPrepare(c, n) == PrepareChildren(c, n, 1)

\* The test of Text.prepare: `not self._w or not self._h`.
TextNeedsMeasure(o) == ~Truthy(o.w) \/ ~Truthy(o.h)

\* Text.prepare
TextPrepare(c, n) ==
    LET c1 == ObjectPrepare(c, n)
        o == c1.st[n]
    IN IF ~c1.ok THEN c1
       ELSE IF TextNeedsMeasure(o)
       THEN [Logged(c1, Entry("text_bbox", n, <<>>, <<>>))
                EXCEPT !.st[n].w = Or(o.w, Some(measure[1])),
                       !.st[n].h = Or(o.h, Some(measure[2]))]
       ELSE c1

\* A first loop of Table.prepare that keeps the last height, not the largest.
TableLastLoop(c, n, i) ==
    IF ~c.ok \/ Len(c.st[n].children) = 0 THEN c
    ELSE LET r == GetHeight(c.st, c.st[n].children[Len(c.st[n].children)].obj)
         IN IF r.raised THEN Raised([c EXCEPT !.st = r.st])
            ELSE [c EXCEPT !.st = [r.st EXCEPT ![n].h = r.val]]

\* Table.prepare, first loop: self._h = max(self._h, obj.height).
TableMaxLoop(c, n, i) ==
    IF ~c.ok \/ i > Len(c.st[n].children) THEN c
    ELSE LET r == GetHeight(c.st, c.st[n].children[i].obj)
         IN IF r.raised THEN Raised([c EXCEPT !.st = r.st])
            ELSE TableMaxLoop(
                   [c EXCEPT !.st = [r.st EXCEPT ![n].h =
                                       Some(Max(Val(@), Val(r.val)))]],
                   n, i + 1)

\* Table.prepare, second loop: obj.height = self._h.
TableSetLoop(c, n, i) ==
    IF ~c.ok \/ i > Len(c.st[n].children) THEN c
    ELSE LET r == SetHeight(c.st, c.st[n].children[i].obj, c.st[n].h)
         IN IF r.raised THEN Raised([c EXCEPT !.st = r.st])
            ELSE TableSetLoop([c EXCEPT !.st = r.st], n, i + 1)

\* Table.prepare
TablePrepare(c, n) ==
    LET c1 == ObjectPrepare(c, n)
    IN IF ~c1.ok THEN c1
       ELSE TableSetLoop(
              TableMaxLoop([c1 EXCEPT !.st[n].h = Some(0)], n, 1), n, 1)

\* obj.prepare(renderer)
Prepare(c, n) ==
    LET c0 == Logged(c, Entry("prepare", n, <<>>, <<>>))
    IN CASE c.st[n].kind = "Text" -> TextPrepare(c0, n)
         [] c.st[n].kind = "Table" -> TablePrepare(c0, n)
         [] OTHER -> ObjectPrepare(c0, n)

\* ------------------------------------------------------------------ render
RECURSIVE Render(_, _, _), RenderChildren(_, _, _, _)
RECURSIVE VLayoutRenderLoop(_, _, _, _, _), HLayoutRenderLoop(_, _, _, _)
RECURSIVE DottedLineLoop(_, _, _, _, _, _), CanvasRenderLoop(_, _, _, _)

\* A property read inside an operation: the store moves on, and an
\* exception ends the operation.
Read(c, r) == IF r.raised THEN Raised([c EXCEPT !.st = r.st])
              ELSE [c EXCEPT !.st = r.st]

\* Object.render: the loop from the i-th child on.
RenderChildren(c, n, pos, i) ==
    IF ~c.ok \/ i > Len(c.st[n].children) THEN c
    ELSE LET ch == c.st[n].children[i]
         IN RenderChildren(
              Render(c, ch.obj, P(pos[1] + ch.off[1], pos[2] + ch.off[2])),
              n, pos, i + 1)

\* Object.render
ObjectRender(c, n, pos) == RenderChildren(c, n, pos, 1)

\* A VLayout that places a child at its offset, without centring it.
VLayoutChildPosUncentred(x, y, centerx, off, width) ==
    P(x + off[1], y + off[2])

\* The point a VLayout hands to a child: obj_posx + centerx - obj_centerx.
VLayoutChildPos(x, y, centerx, off, width) ==
    LET obj_posx == x + off[1]
        obj_centerx == obj_posx + (width \div 2)
    IN P(obj_posx + centerx - obj_centerx, y + off[2])

\* VLayout.render: the loop from the i-th child on, the cursor at y.
VLayoutRenderLoop(c, n, i, xy, centerx) ==
    IF ~c.ok \/ i > Len(c.st[n].children) THEN c
    ELSE LET ch == c.st[n].children[i]
             rw == GetWidth(c.st, ch.obj)
             c1 == Read(c, rw)
             c2 == Render(c1, ch.obj,
                          VLayoutChildPos(xy[1], xy[2], centerx, ch.off,
                                          Val(rw.val)))
             rh == GetHeight(c2.st, ch.obj)
             c3 == Read(c2, rh)
         IN IF ~c1.ok THEN c1
            ELSE IF ~c2.ok THEN c2
            ELSE IF ~c3.ok THEN c3
            ELSE VLayoutRenderLoop(
                   c3, n, i + 1, P(xy[1], xy[2] + Val(rh.val) + ch.off[2]),
                   centerx)

\* VLayout.render
VLayoutRender(c, n, pos) ==
    LET rw == GetWidth(c.st, n)
        c1 == Read(c, rw)
    IN IF ~c1.ok THEN c1
       ELSE VLayoutRenderLoop(c1, n, 1, pos, pos[1] + (Val(rw.val) \div 2))

\* HLayout.render: the loop from the i-th child on, the cursor at x.
HLayoutRenderLoop(c, n, i, xy) ==
    IF ~c.ok \/ i > Len(c.st[n].children) THEN c
    ELSE LET ch == c.st[n].children[i]
             c1 == Render(c, ch.obj, P(xy[1] + ch.off[1], xy[2] + ch.off[2]))
             rw == GetWidth(c1.st, ch.obj)
             c2 == Read(c1, rw)
         IN IF ~c1.ok THEN c1
            ELSE IF ~c2.ok THEN c2
            ELSE HLayoutRenderLoop(
                   c2, n, i + 1, P(xy[1] + Val(rw.val) + ch.off[1], xy[2]))

\* HLayout.render
HLayoutRender(c, n, pos) == HLayoutRenderLoop(c, n, 1, pos)

\* Rectangle.render (TextBox.render calls it): x + self._w on the attribute
\* itself, a TypeError when it is None.
RectangleRender(c, n, pos) ==
    LET o == c.st[n]
    IN IF o.w = None \/ o.h = None THEN Raised(c)
       ELSE ObjectRender(
              Logged(c, Entry("rectangle", n, pos,
                              P(pos[1] + Val(o.w), pos[2] + Val(o.h)))),
              n, pos)

\* Line.render
LineRender(c, n, pos) ==
    Logged(c, Entry("line", n, PAdd(c.st[n].start, pos),
                    PAdd(c.st[n].end, pos)))

Abs(a) == IF a < 0 THEN -a ELSE a

\* DottedLine.render's length, for the lines of the model: those along an
\* axis, whose length is |dx| or |dy|.
DottedLineLength(start, end) ==
    IF start[2] = end[2] THEN Abs(end[1] - start[1])
    ELSE Abs(end[2] - start[2])

\* DottedLine.render's u: (end - start) / length unless end.x = start.x.
DottedLineU(start, end) ==
    IF end[1] /= start[1]
    THEN LET d == PSub(end, start)
             len == DottedLineLength(start, end)
         IN P(d[1] \div len, d[2] \div len)
    ELSE P(0, 1)

\* A DottedLine loop that draws only the dashes that fit whole.
DottedLineLoopWhole(c, n, k, length, u, xy1) ==
    LET dash == c.st[n].dash_len
        count == length \div dash
        Dash(i) == Entry("line", n, PAdd(xy1, PMulScalar(u, i * dash)),
                         PAdd(xy1, PMulScalar(u, i * dash + (dash \div 2))))
    IN [c EXCEPT !.log = @ \o [i \in 1..count |-> Dash(i - 1)]]

\* DottedLine.render: the loop over range(0, int(length), dash_len) from
\* the value k on.
DottedLineLoop(c, n, k, length, u, xy1) ==
    IF k >= length THEN c
    ELSE LET dash == c.st[n].dash_len
             xy2 == PAdd(xy1, PMulScalar(u, dash \div 2))
         IN DottedLineLoop(
              Logged(c, Entry("line", n, xy1, xy2)),
              n, k + dash, length, u, PAdd(xy1, PMulScalar(u, dash)))

\* DottedLine.render
DottedLineRender(c, n, pos) ==
    LET o == c.st[n]
    IN DottedLineLoop(c, n, 0, DottedLineLength(o.start, o.end),
                      DottedLineU(o.start, o.end), PAdd(o.start, pos))

\* Text.render
TextRender(c, n, pos) ==
    IF c.st[n].align = "right"
    THEN LET rw == GetWidth(c.st, n)
             c1 == Read(c, rw)
         IN IF ~c1.ok THEN c1
            ELSE Logged(c1, Entry("text", n, PAdd(pos, P(Val(rw.val), 0)), <<>>))
    ELSE Logged(c, Entry("text", n, pos, <<>>))

\* A statement reached only when no earlier statement of the method raised.
PrepareNext(c, n) == IF c.ok THEN Prepare(c, n) ELSE c
RenderNext(c, n, pos) == IF c.ok THEN Render(c, n, pos) ELSE c

\* Canvas.render, the end of one turn of the loop: widen the canvas to the
\* child's far corner (self.width = max(self.width, obj.width + x), and the
\* same for the height).
CanvasWiden(c, n, ch, pos) ==
    LET xy == PAdd(ch.off, pos)
        sw == ObjectWidth(c.st, n)
        rw == GetWidth(sw.st, ch.obj)
        c3 == Read(Read(c, sw), rw)
        c4 == [c3 EXCEPT !.st[n].w =
                           Some(Max(Val(sw.val), Val(rw.val) + xy[1]))]
        sh == ObjectHeight(c4.st, n)
        rh == GetHeight(sh.st, ch.obj)
        c5 == Read(Read(c4, sh), rh)
    IN IF ~c.ok THEN c
       ELSE IF ~c3.ok THEN c3
       ELSE IF ~c5.ok THEN c5
       ELSE [c5 EXCEPT !.st[n].h =
                         Some(Max(Val(sh.val), Val(rh.val) + xy[2]))]

\* A turn of Canvas.render that renders the child before preparing it.
CanvasRenderChildUnprepared(c, n, ch, pos) ==
    CanvasWiden(PrepareNext(Render(c, ch.obj, PAdd(pos, ch.off)), ch.obj),
                n, ch, pos)

\* Canvas.render, one turn of the loop: prepare and render the child, then
\* widen the canvas.
CanvasRenderChild(c, n, ch, pos) ==
    CanvasWiden(RenderNext(Prepare(c, ch.obj), ch.obj, PAdd(pos, ch.off)),
                n, ch, pos)

\* Canvas.render: the loop from the i-th child on.
CanvasRenderLoop(c, n, i, pos) ==
    IF ~c.ok \/ i > Len(c.st[n].children) THEN c
    ELSE CanvasRenderLoop(
           CanvasRenderChild(c, n, c.st[n].children[i], pos), n, i + 1, pos)

\* An end of Canvas.render that reports the size without the far padding.
CanvasFinishUnpadded(c, n) ==
    Logged(c, Entry("set_dimensions", n,
                    P(Val(c.st[n].w), Val(c.st[n].h)), <<>>))

\* Canvas.render, after the loop: the second padding, then set_dimensions.
CanvasFinish(c, n) ==
    LET o == c.st[n]
        w == Val(o.w) + o.padding
        h == Val(o.h) + o.padding
    IN Logged([c EXCEPT !.st[n].w = Some(w), !.st[n].h = Some(h)],
              Entry("set_dimensions", n, P(w, h), <<>>))

\* Canvas.render
CanvasRender(c, n, pos) ==
    LET pad == c.st[n].padding
        c0 == [c EXCEPT !.st[n].w = Some(pad), !.st[n].h = Some(pad)]
        c1 == CanvasRenderLoop(c0, n, 1, PAddScalar(pos, pad))
    IN IF ~c1.ok THEN c1 ELSE CanvasFinish(c1, n)

\* obj.render(renderer, pos)
Render(c, n, pos) ==
    LET c0 == Logged(c, Entry("render", n, pos, <<>>))
        k == c.st[n].kind
    IN CASE k = "VLayout" -> VLayoutRender(c0, n, pos)
         [] k \in {"HLayout", "Table"} -> HLayoutRender(c0, n, pos)
         [] k \in {"Rectangle", "TextBox"} -> RectangleRender(c0, n, pos)
         [] k = "Line" -> LineRender(c0, n, pos)
         [] k = "DottedLine" -> DottedLineRender(c0, n, pos)
         [] k = "Text" -> TextRender(c0, n, pos)
         [] k = "Canvas" -> CanvasRender(c0, n, pos)
         [] OTHER -> ObjectRender(c0, n, pos)

\* ----------------------------------------------------------------- actions
Nodes == DOMAIN objs

\* Whether a is n or one of n's ancestors (the parent chain from n up).
RECURSIVE IsAncestor(_, _, _)
IsAncestor(st, a, n) ==
    \/ a = n
    \/ st[n].parent /= None /\ IsAncestor(st, a, Val(st[n].parent))

\* The record of a call: the operation, the object and the argument (of a
\* getter, prepare or render; what a mutator was given shows in objs),
\* whether it raised, and the value returned (None when there is none).
Done(op, node, arg, raised, val) ==
    [op |-> op, node |-> node, arg |-> arg, raised |-> raised, val |-> val]

\* parent.add(child, off).  The caller keeps the tree a tree: a child has one
\* parent and is no ancestor of its parent; a Canvas is a root.
Add(p, ch, off) ==
    /\ objs[ch].parent = None
    /\ objs[ch].kind /= "Canvas"
    /\ ~IsAncestor(objs, ch, p)
    /\ objs' = ObjectAdd(objs, p, ch, off)
    /\ ret' = Done("add", 0, None, FALSE, None)
    /\ log' = <<>>
    /\ UNCHANGED <<ctor, measure>>

\* n.width = v
AssignWidth(n, v) ==
    LET r == SetWidth(objs, n, v)
    IN /\ objs' = r.st
       /\ ret' = Done("set_width", 0, None, r.raised, None)
       /\ log' = <<>>
       /\ UNCHANGED <<ctor, measure>>

\* n.height = v
AssignHeight(n, v) ==
    LET r == SetHeight(objs, n, v)
    IN /\ objs' = r.st
       /\ ret' = Done("set_height", 0, None, r.raised, None)
       /\ log' = <<>>
       /\ UNCHANGED <<ctor, measure>>

\* n.width
ReadWidth(n) ==
    LET r == GetWidth(objs, n)
    IN /\ objs' = r.st
       /\ ret' = Done("width", n, None, r.raised, r.val)
       /\ log' = <<>>
       /\ UNCHANGED <<ctor, measure>>

\* n.height
ReadHeight(n) ==
    LET r == GetHeight(objs, n)
    IN /\ objs' = r.st
       /\ ret' = Done("height", n, None, r.raised, r.val)
       /\ log' = <<>>
       /\ UNCHANGED <<ctor, measure>>

\* n.prepare(renderer)
CallPrepare(n) ==
    LET c == Prepare(Ctx(objs, <<>>, TRUE), n)
    IN /\ objs' = c.st
       /\ ret' = Done("prepare", n, None, ~c.ok, None)
       /\ log' = c.log
       /\ UNCHANGED <<ctor, measure>>

\* n.render(renderer, pos)
CallRender(n, pos) ==
    LET c == Render(Ctx(objs, <<>>, TRUE), n, pos)
    IN /\ objs' = c.st
       /\ ret' = Done("render", n, pos, ~c.ok, None)
       /\ log' = c.log
       /\ UNCHANGED <<ctor, measure>>

Args(width, height) == [w |-> width, h |-> height]
NoCall == Done("init", 0, None, FALSE, None)
Positions == {P(0, 0), P(1, 2)}

IsLayout(n) == objs[n].kind \in {"VLayout", "HLayout"}
Layouts == {n \in Nodes : IsLayout(n)}
Leaves == {n \in Nodes : ~IsLayout(n)}

\* ------------------------------------------------- stacking layouts (Spec)
\* Three objects: a VLayout or HLayout; a second layout of the other class
\* or a Rectangle; an Object.  The fixed-size ones get explicit dimensions.
\* Then add, the setters and the getters in any order.  With two layouts the
\* setters are used on the fixed-size object only.
Init ==
    /\ \E k1 \in {"VLayout", "HLayout"}, leaf2 \in BOOLEAN,
          a2 \in Dims \X Dims, a3 \in Dims \X Dims :
         objs = <<ObjectInit(k1, None, None, 0),
                  IF leaf2 THEN ObjectInit("Rectangle", a2[1], a2[2], 0)
                  ELSE ObjectInit(IF k1 = "VLayout" THEN "HLayout"
                                  ELSE "VLayout", None, None, 0),
                  ObjectInit("Object", a3[1], a3[2], 0)>>
    /\ ctor = <<>>
    /\ measure = P(0, 0)
    /\ ret = NoCall
    /\ log = <<>>

Nested == Cardinality(Layouts) > 1

Next ==
    \/ \E p \in Layouts, ch \in Nodes, off \in Offsets : Add(p, ch, off)
    \/ \E n \in Leaves, v \in Dims : AssignWidth(n, v)
    \/ \E n \in Leaves, v \in Dims : AssignHeight(n, v)
    \/ \E n \in Layouts, v \in Dims : ~Nested /\ AssignWidth(n, v)
    \/ \E n \in Layouts, v \in Dims : ~Nested /\ AssignHeight(n, v)
    \/ \E n \in Layouts : ReadWidth(n)
    \/ \E n \in Layouts : ReadHeight(n)

Spec == Init /\ [][Next]_vars

\* ---------------------------------------------- rendering (SpecRender)
\* A VLayout, a Rectangle, and an Object or an HLayout, the fixed-size ones
\* with explicit dimensions; then add, the setters, and render of a layout.
InitRender ==
    /\ \E leaf3 \in BOOLEAN, a2 \in Dims \X Dims, a3 \in Dims \X Dims :
         objs = <<ObjectInit("VLayout", None, None, 0),
                  ObjectInit("Rectangle", a2[1], a2[2], 0),
                  IF leaf3 THEN ObjectInit("Object", a3[1], a3[2], 0)
                  ELSE ObjectInit("HLayout", None, None, 0)>>
    /\ ctor = <<>>
    /\ measure = P(0, 0)
    /\ ret = NoCall
    /\ log = <<>>

NextRender ==
    \/ \E p \in Layouts, ch \in Nodes, off \in Offsets : Add(p, ch, off)
    \/ \E n \in Leaves, v \in Dims : AssignWidth(n, v)
    \/ \E n \in Leaves, v \in Dims : AssignHeight(n, v)
    \/ \E n \in Layouts, pos \in Positions : CallRender(n, pos)

SpecRender == InitRender /\ [][NextRender]_vars

\* ------------------------------------------ unset dimensions (SpecUnset)
\* A VLayout or HLayout, a Rectangle, and an Object, Text or Canvas, the
\* fixed-size ones constructed with or without explicit dimensions; then add
\* at the default offset, the setters of the fixed-size objects, the getters,
\* Text.prepare, and render of the Rectangle and the Canvas.
InitUnset ==
    /\ \E k1 \in {"VLayout", "HLayout"}, k3 \in {"Object", "Text", "Canvas"},
          a2 \in OptDims \X OptDims, a3 \in OptDims \X OptDims :
         objs = <<ObjectInit(k1, None, None, 0),
                  ObjectInit("Rectangle", a2[1], a2[2], 0),
                  ObjectInit(k3, a3[1], a3[2], 0)>>
    /\ ctor = <<>>
    /\ measure = P(MaxDim, MaxDim)
    /\ ret = NoCall
    /\ log = <<>>

NextUnset ==
    \/ \E p \in Layouts, ch \in Nodes : Add(p, ch, P(0, 0))
    \/ \E n \in Nodes : ReadWidth(n)
    \/ \E n \in Nodes : ReadHeight(n)
    \/ \E n \in Leaves, v \in Dims : AssignWidth(n, v)
    \/ \E n \in Leaves, v \in Dims : AssignHeight(n, v)
    \/ \E n \in Nodes : objs[n].kind = "Text" /\ CallPrepare(n)
    \/ \E n \in Nodes : objs[n].kind \in {"Rectangle", "Canvas"}
                          /\ CallRender(n, P(0, 0))

SpecUnset == InitUnset /\ [][NextUnset]_vars

\* ------------------------------------------------- TextBox (SpecTextBox)
\* One TextBox of explicit width and height; then assignments to its height,
\* the getters, and render.
BoxDims == {Some(v) : v \in 0..MaxBox}

InitTextBox ==
    /\ \E a \in BoxDims \X BoxDims :
         /\ objs = TextBoxInit(1, 2, a[1], a[2])
         /\ ctor = [i \in 1..2 |-> Args(a[1], a[2])]
    /\ measure = P(0, 0)
    /\ ret = NoCall
    /\ log = <<>>

IsTextBox(n) == objs[n].kind = "TextBox"

NextTextBox ==
    \/ \E n \in Nodes, v \in BoxDims : IsTextBox(n) /\ AssignHeight(n, v)
    \/ \E n \in Nodes : IsTextBox(n) /\ ReadWidth(n)
    \/ \E n \in Nodes : IsTextBox(n) /\ ReadHeight(n)
    \/ \E n \in Nodes, pos \in Positions : IsTextBox(n) /\ CallRender(n, pos)

SpecTextBox == InitTextBox /\ [][NextTextBox]_vars

\* ------------------------------------------- Text and Spacer (SpecText)
\* A Text and a Spacer constructed with or without explicit dimensions, and
\* a renderer whose text_bbox always gives the same answer; then prepare,
\* the getters, and render.
InitText ==
    /\ \E a1 \in OptDims \X OptDims, al \in {"left", "right"},
          a2 \in OptDims \X OptDims, pad \in Pads :
         /\ objs = <<TextInit(a1[1], a1[2], al),
                     SpacerInit(a2[1], a2[2], pad)>>
         /\ ctor = <<Args(a1[1], a1[2]), Args(a2[1], a2[2])>>
    /\ measure \in (0..MaxDim) \X (0..MaxDim)
    /\ ret = NoCall
    /\ log = <<>>

NextText ==
    \/ \E n \in Nodes : CallPrepare(n)
    \/ \E n \in Nodes : ReadWidth(n)
    \/ \E n \in Nodes : ReadHeight(n)
    \/ \E n \in Nodes : CallRender(n, P(0, 0))

SpecText == InitText /\ [][NextText]_vars

\* --------------------------------------------- DottedLine (SpecDotted)
\* One DottedLine along an axis, from the origin or from (1, 1); then render.
InitDotted ==
    /\ \E start \in {P(0, 0), P(1, 1)}, along \in {"x", "y"},
          L \in 0..MaxCoord, dash \in 1..MaxDash :
         objs = <<LineInit("DottedLine", start,
                           IF along = "x" THEN P(L, start[2])
                           ELSE P(start[1], L), dash)>>
    /\ ctor = <<>>
    /\ measure = P(0, 0)
    /\ ret = NoCall
    /\ log = <<>>

NextDotted == \E n \in Nodes, pos \in Positions : CallRender(n, pos)

SpecDotted == InitDotted /\ [][NextDotted]_vars

\* ------------------------------------------------------ Table (SpecTable)
\* A Table, a TextBox with its Text, a Rectangle, Text, Spacer or VLayout,
\* and an Object; the fixed-size ones constructed with or without an
\* explicit height.  Then add (to the Table at the default offset, to the
\* VLayout at any), Table.prepare, and the height getters.
CellWidth == Some(MaxDim)

InitTable ==
    /\ \E hb \in Dims, k4 \in {"Rectangle", "Text", "Spacer", "VLayout"},
          a4 \in OptDims \X OptDims, h5 \in Dims, pad \in {0, MaxPad} :
         LET box == TextBoxInit(2, 3, CellWidth, hb)
             w4 == IF k4 = "Rectangle" THEN CellWidth ELSE a4[1]
             n4 == CASE k4 = "Text" -> TextInit(a4[1], a4[2], "left")
                     [] k4 = "Spacer" -> SpacerInit(a4[1], a4[2], pad)
                     [] k4 = "Rectangle" -> ObjectInit(k4, w4, a4[2], 0)
                     [] OTHER -> ObjectInit(k4, None, None, 0)
         IN /\ k4 = "VLayout" => a4 = <<None, None>>
            /\ k4 = "Rectangle" => a4[1] = None
            /\ k4 /= "Spacer" => pad = 0
            /\ objs = [i \in 1..5 |->
                         CASE i = 1 -> ObjectInit("Table", None, None, 0)
                           [] i \in {2, 3} -> box[i]
                           [] i = 4 -> n4
                           [] OTHER -> ObjectInit("Object", CellWidth, h5, 0)]
            /\ ctor = [i \in 1..5 |->
                         CASE i \in {2, 3} -> Args(CellWidth, hb)
                           [] i = 4 -> Args(w4, a4[2])
                           [] i = 5 -> Args(CellWidth, h5)
                           [] OTHER -> Args(None, None)]
    /\ measure = P(MaxDim, MaxDim)
    /\ ret = NoCall
    /\ log = <<>>

IsTable(n) == objs[n].kind = "Table"
\* The classes whose height is computed from the children on every read.
Derived(st, n) == st[n].kind \in {"VLayout", "HLayout", "Table"}

NextTable ==
    \/ \E p \in Nodes, ch \in Nodes : IsTable(p) /\ Add(p, ch, P(0, 0))
    \/ \E p \in Nodes, ch \in Nodes, off \in Offsets :
         objs[p].kind = "VLayout" /\ objs[ch].kind = "Object"
           /\ Add(p, ch, off)
    \/ \E n \in Nodes : IsTable(n) /\ CallPrepare(n)
    \/ \E n \in Nodes : ReadHeight(n)

SpecTable == InitTable /\ [][NextTable]_vars

\* ---------------------------------------------------- Canvas (SpecCanvas)
\* A Canvas, a VLayout, a Text constructed with or without explicit
\* dimensions and a Rectangle; then add and Canvas.render.
InitCanvas ==
    /\ \E pad \in Pads, a3 \in {None, Some(MaxDim)} \X {None, Some(MaxDim)},
          a4 \in Dims \X Dims :
         objs = <<ObjectInit("Canvas", None, None, pad),
                  ObjectInit("VLayout", None, None, 0),
                  TextInit(a3[1], a3[2], "left"),
                  ObjectInit("Rectangle", a4[1], a4[2], 0)>>
    /\ ctor = <<>>
    /\ measure = P(MaxDim, MaxDim)
    /\ ret = NoCall
    /\ log = <<>>

IsCanvas(n) == objs[n].kind = "Canvas"

NextCanvas ==
    \/ \E p \in Nodes, ch \in Nodes, off \in Offsets :
         objs[p].kind \in {"Canvas", "VLayout"} /\ Add(p, ch, off)
    \/ \E n \in Nodes, pos \in Positions : IsCanvas(n) /\ CallRender(n, pos)

SpecCanvas == InitCanvas /\ [][NextCanvas]_vars

\* -------------------------------------------------------------- properties
SetMax(S) == CHOOSE m \in S : \A x \in S : x <= m

RECURSIVE SeqSum(_)
SeqSum(q) == IF q = <<>> THEN 0 ELSE Head(q) + SeqSum(Tail(q))

\* child.width + offset.x and child.height + offset.y of n's children, in
\* order, as the children report them now.
WidthTerms(n) ==
    [i \in 1..Len(objs[n].children) |->
        Val(GetWidth(objs, objs[n].children[i].obj).val)
          + objs[n].children[i].off[1]]
HeightTerms(n) ==
    [i \in 1..Len(objs[n].children) |->
        Val(GetHeight(objs, objs[n].children[i].obj).val)
          + objs[n].children[i].off[2]]
Range(q) == {q[i] : i \in 1..Len(q)}

\* The plain maximum: 0 for no children, else the largest term.
PlainMax(q) == IF q = <<>> THEN 0 ELSE SetMax(Range(q))
\* The maximum the code computes: the largest of 0 and the terms.
FlooredMax(q) == SetMax(Range(q) \cup {0})

\* What a read of n's width and height is to return, given the maximum.
WidthOf(n, M(_)) ==
    IF objs[n].kind = "VLayout" THEN M(WidthTerms(n))
    ELSE SeqSum(WidthTerms(n))
HeightOf(n, M(_)) ==
    IF objs[n].kind = "VLayout" THEN SeqSum(HeightTerms(n))
    ELSE M(HeightTerms(n))

\* In this state every layout's getters return the derived values, and the
\* read just made returned them.
DerivedDimensions(M(_)) ==
    /\ \A n \in Layouts :
         /\ GetWidth(objs, n).val = Some(WidthOf(n, M))
         /\ GetHeight(objs, n).val = Some(HeightOf(n, M))
    /\ ret.op = "width" => ret.val = Some(WidthOf(ret.node, M))
    /\ ret.op = "height" => ret.val = Some(HeightOf(ret.node, M))

\* C1 as stated: in every state reached by add and the setters, a VLayout
\* reads width = max_i(child.width + offset.x), height = sum_i(child.height
\* + offset.y), an HLayout the two swapped, 0 for no children, whatever was
\* stored or read before.
C1_MaxOverChildren == DerivedDimensions(PlainMax)

\* C1 amended: the same with the maximum taken over 0 and the children's
\* terms, so that it is never negative (the sum can be).
C1_DerivedDimensions == DerivedDimensions(FlooredMax)

\* A VLayout with two children, one at a negative x offset, has just been
\* read, after its own _w had held something else than the derived value's
\* starting point.
C1_Witness ==
    /\ ret.op = "width"
    /\ objs[ret.node].kind = "VLayout"
    /\ Len(objs[ret.node].children) = 2
    /\ \E i \in 1..2 : objs[ret.node].children[i].off[1] < 0
    /\ Val(ret.val) > 0
    /\ WidthTerms(ret.node)[1] /= WidthTerms(ret.node)[2]

\* The "render" entries of the log made by n's own children, in order.
ChildRenders(n) ==
    SelectSeq(log, LAMBDA e :
        e.call = "render" /\ \E i \in 1..Len(objs[n].children) :
                                 objs[n].children[i].obj = e.by)

\* C9: VLayout.render at (x, y) renders the children in insertion order, the
\* i-th at (px, py) with px + w_i // 2 = x + W // 2 and
\* py = y + sum over j < i of (h_j + oy_j) + oy_i.
C9_VLayoutPlacement ==
    (ret.op = "render" /\ objs[ret.node].kind = "VLayout" /\ ~ret.raised) =>
        LET v == ret.node
            r == ChildRenders(v)
            W == Val(GetWidth(objs, v).val)
        IN /\ Len(r) = Len(objs[v].children)
           /\ \A i \in 1..Len(r) :
                LET ch == objs[v].children[i]
                    w == Val(GetWidth(objs, ch.obj).val)
                IN /\ r[i].by = ch.obj
                   /\ r[i].p1[1] + (w \div 2) = ret.arg[1] + (W \div 2)
                   /\ r[i].p1[2] = ret.arg[2]
                                     + SeqSum(SubSeq(HeightTerms(v), 1, i - 1))
                                     + ch.off[2]

\* A VLayout with two children of different widths, the second at a non-zero
\* offset and below a first child of non-zero extent, has been rendered.
C9_Witness ==
    /\ ret.op = "render" /\ objs[ret.node].kind = "VLayout" /\ ~ret.raised
    /\ Len(objs[ret.node].children) = 2
    /\ objs[ret.node].children[2].off[1] /= 0
    /\ HeightTerms(ret.node)[1] /= 0
    /\ GetWidth(objs, objs[ret.node].children[1].obj).val
         /= GetWidth(objs, objs[ret.node].children[2].obj).val

\* The objects of n's subtree that a read of n's width (w = TRUE) or height
\* reaches: n, and through a layout its children's.
RECURSIVE Reached(_)
Reached(n) ==
    IF IsLayout(n)
    THEN {n} \cup UNION {Reached(objs[n].children[i].obj) :
                           i \in 1..Len(objs[n].children)}
    ELSE {n}

UnsetWidth(n) == ~IsLayout(n) /\ objs[n].w = None
UnsetHeight(n) == ~IsLayout(n) /\ objs[n].h = None

\* C7: reading the width (height) of a fixed-size object whose width (height)
\* was never set raises and returns nothing, directly and through the getter
\* of a layout that holds it; rendering a Rectangle with an unset dimension
\* raises before it draws.
C7_UnsetRaises ==
    /\ \A n \in Nodes :
         /\ (\E m \in Reached(n) : UnsetWidth(m)) =>
               GetWidth(objs, n).raised /\ GetWidth(objs, n).val = None
         /\ (\E m \in Reached(n) : UnsetHeight(m)) =>
               GetHeight(objs, n).raised /\ GetHeight(objs, n).val = None
    /\ (ret.op = "width" /\ \E m \in Reached(ret.node) : UnsetWidth(m)) =>
          ret.raised /\ ret.val = None
    /\ (ret.op = "height" /\ \E m \in Reached(ret.node) : UnsetHeight(m)) =>
          ret.raised /\ ret.val = None
    /\ (ret.op = "render" /\ objs[ret.node].kind = "Rectangle"
          /\ (UnsetWidth(ret.node) \/ UnsetHeight(ret.node))) =>
          ret.raised /\ \A i \in 1..Len(log) : log[i].call /= "rectangle"

\* The width of a layout has been read while one of its children's was unset.
C7_Witness ==
    /\ ret.op = "width" /\ IsLayout(ret.node) /\ ret.raised
    /\ \E m \in Reached(ret.node) : m /= ret.node /\ UnsetWidth(m)

\* C6: a TextBox has exactly one child, a Text, whose offset is
\* (W // 2, H // 2) for the width W it was constructed with and its latest
\* height H: after construction and after every assignment to its height.
C6_TextCentred ==
    \A n \in Nodes : IsTextBox(n) =>
        /\ Len(objs[n].children) = 1
        /\ objs[objs[n].children[1].obj].kind = "Text"
        /\ objs[n].children[1].off =
             P(Val(ctor[n].w) \div 2, Val(objs[n].h) \div 2)

\* The height of a TextBox has been assigned a value whose half differs from
\* the half of the height it was constructed with.
C6_Witness ==
    \E n \in Nodes :
        /\ IsTextBox(n) /\ ret.op = "set_height"
        /\ Val(objs[n].h) \div 2 /= Val(ctor[n].h) \div 2
        /\ Val(ctor[n].w) \div 2 /= 0

Count(q, Test(_)) == Len(SelectSeq(q, Test))
IsBbox(e) == e.call = "text_bbox"

\* C4: Text.prepare called again leaves width and height as the call before
\* left them; a dimension given explicitly at construction, 0 included, is
\* never replaced by a measured one; with both given explicitly prepare
\* never calls text_bbox, and otherwise at most once per call.
C4_PrepareMeasuresWhenNeeded ==
    [][\A n \in Nodes : objs[n].kind = "Text" =>
         /\ (ret = Done("prepare", n, None, FALSE, None) /\ ret' = ret) =>
               (objs'[n].w = objs[n].w /\ objs'[n].h = objs[n].h)
         /\ ctor[n].w /= None => objs'[n].w = ctor[n].w
         /\ ctor[n].h /= None => objs'[n].h = ctor[n].h
         /\ (ret'.op = "prepare" /\ ctor[n].w /= None /\ ctor[n].h /= None)
               => Count(log', IsBbox) = 0
         /\ ret'.op = "prepare" => Count(log', IsBbox) <= 1]_vars

\* C10: a Spacer has no children and its getters never raise; each dimension
\* reads as the value it was constructed with, 0 included, or as the style's
\* padding when it was constructed without one.
C10_SpacerDimensions ==
    \A n \in Nodes : objs[n].kind = "Spacer" =>
        /\ objs[n].children = <<>>
        /\ GetWidth(objs, n) =
             Ok(objs, IF ctor[n].w /= None THEN Val(ctor[n].w)
                      ELSE objs[n].padding)
        /\ GetHeight(objs, n) =
             Ok(objs, IF ctor[n].h /= None THEN Val(ctor[n].h)
                      ELSE objs[n].padding)

IsLine(e) == e.call = "line"

\* The DottedLine runs from (0, 0) to (L, 0) and has just been rendered.
DottedFromOrigin ==
    /\ ret.op = "render" /\ objs[ret.node].kind = "DottedLine"
    /\ objs[ret.node].start = P(0, 0) /\ objs[ret.node].end[2] = 0

\* The line calls of the log are `count` dashes, the i-th (from 0) from
\* position + (i * dash_len, 0) to `twice_half / 2` further along x.
DashesAre(count, twice_half) ==
    LET dashes == SelectSeq(log, IsLine)
        dash == objs[ret.node].dash_len
    IN /\ Len(dashes) = count
       /\ \A i \in 1..Len(dashes) :
            /\ dashes[i].p1 = PAdd(ret.arg, P((i - 1) * dash, 0))
            /\ dashes[i].p2[2] = dashes[i].p1[2]
            /\ 2 * (dashes[i].p2[1] - dashes[i].p1[1]) = twice_half

\* C5 as stated: a DottedLine from (0, 0) to (L, 0) renders floor(L /
\* dash_len) dashes, the i-th starting at position + (i * dash_len, 0) and
\* ending half a dash length further along.
C5_FloorDashes ==
    DottedFromOrigin =>
        DashesAre(objs[ret.node].end[1] \div objs[ret.node].dash_len,
                  objs[ret.node].dash_len)

\* C5 amended: it renders ceil(L / dash_len) dashes (one for every started
\* dash_len of the length), each dash_len // 2 long.
C5_CeilDashes ==
    DottedFromOrigin =>
        LET dash == objs[ret.node].dash_len
        IN DashesAre((objs[ret.node].end[1] + dash - 1) \div dash,
                     2 * (dash \div 2))

\* A line whose length is no multiple of an odd dash_len has been rendered.
C5_Witness ==
    /\ DottedFromOrigin
    /\ objs[ret.node].end[1] % objs[ret.node].dash_len /= 0
    /\ objs[ret.node].dash_len % 2 = 1
    /\ Len(SelectSeq(log, IsLine)) >= 2

\* The cells of table t in store st, and the heights they report.
Cells(st, t) == {st[t].children[i].obj : i \in 1..Len(st[t].children)}
CellHeights(st, t) == {Val(GetHeight(st, c).val) : c \in Cells(st, t)}

\* This step is a Table.prepare that returned, on a table with a cell; after
\* it every cell that Equalized admits reports the largest of the heights the
\* cells reported after their own prepare.
TableEqualizes(Equalized(_)) ==
    \A t \in Nodes :
        (/\ IsTable(t) /\ Len(objs[t].children) >= 1
         /\ ret' = Done("prepare", t, None, FALSE, None)
         /\ objs' = Prepare(Ctx(objs, <<>>, TRUE), t).st) =>
            LET prepared == ObjectPrepare(Ctx(objs, <<>>, TRUE), t).st
                H == SetMax(CellHeights(prepared, t))
            IN \A c \in Cells(objs, t) :
                 Equalized(c) => GetHeight(objs', c) = Ok(objs', H)

AnyCell(c) == TRUE
FixedCell(c) == ~Derived(objs, c)

\* C3 as stated: after Table.prepare every cell, fixed-size or derived-size,
\* reports the maximum of the cells' heights as they were after the cells'
\* own prepare.
C3_AllCellsEqualized == [][TableEqualizes(AnyCell)]_vars

\* C3 amended: every fixed-size cell (Rectangle, Spacer, Text, TextBox,
\* Object) reports that maximum; a VLayout or HLayout cell still reports the
\* height derived from its own children.
C3_FixedCellsEqualized == [][TableEqualizes(FixedCell)]_vars

\* A table of at least two fixed-size cells has been prepared, and a cell
\* constructed with a height now has another.
C3_Witness ==
    /\ ret.op = "prepare" /\ IsTable(ret.node) /\ ~ret.raised
    /\ Len(objs[ret.node].children) >= 2
    /\ \E c \in Cells(objs, ret.node) :
         /\ ~Derived(objs, c) /\ objs[c].kind /= "Spacer"
         /\ ctor[c].h /= None /\ objs[c].h /= ctor[c].h

IsSetDimensions(e) == e.call = "set_dimensions"

\* A Canvas with one child at an offset >= 0 has been rendered at (0, 0):
\* then, when Sized admits the child's size and offset, the canvas is the
\* child's size plus the offset plus the padding twice, and set_dimensions
\* was called once, with that size.
CanvasOfOneChild(Sized(_, _, _)) ==
    \A cv \in Nodes :
        (/\ IsCanvas(cv) /\ ret = Done("render", cv, P(0, 0), FALSE, None)
         /\ Len(objs[cv].children) = 1
         /\ objs[cv].children[1].off[1] >= 0
         /\ objs[cv].children[1].off[2] >= 0) =>
            LET ch == objs[cv].children[1]
                w == Val(GetWidth(objs, ch.obj).val)
                h == Val(GetHeight(objs, ch.obj).val)
                dim == P(w + ch.off[1] + 2 * objs[cv].padding,
                         h + ch.off[2] + 2 * objs[cv].padding)
            IN Sized(w, h, ch.off) =>
                 /\ objs[cv].w = Some(dim[1])
                 /\ objs[cv].h = Some(dim[2])
                 /\ SelectSeq(log, IsSetDimensions) =
                      <<Entry("set_dimensions", cv, dim, <<>>)>>

AnySize(w, h, off) == TRUE
InsideSize(w, h, off) == w + off[1] >= 0 /\ h + off[2] >= 0

RECURSIVE Subtree(_)
Subtree(n) ==
    {n} \cup UNION {Subtree(objs[n].children[i].obj) :
                      i \in 1..Len(objs[n].children)}

IsPrepareStep(e) == e.call \in {"prepare", "text_bbox"}
IsDraw(e) == e.call \in {"rectangle", "line", "text"}

\* C8: in the log of a Canvas.render that returned, within the subtree of
\* each top-level child no prepare step (a prepare, a text_bbox) follows a
\* draw call (rectangle, line, text); the entries of the top-level children
\* come in insertion order, every child having some; and set_dimensions is
\* called once, last.
C8_PrepareBeforeDraw ==
    \A cv \in Nodes :
        (IsCanvas(cv) /\ ret.op = "render" /\ ret.node = cv /\ ~ret.raised) =>
            LET kids == objs[cv].children
                Top(e) == {k \in 1..Len(kids) : e.by \in Subtree(kids[k].obj)}
            IN /\ \A i \in 1..Len(log), j \in 1..Len(log) :
                    (i < j /\ Top(log[i]) /= {}) =>
                        /\ \A k \in Top(log[i]), m \in Top(log[j]) : k <= m
                        /\ (Top(log[i]) = Top(log[j]) /\ IsDraw(log[i]))
                              => ~IsPrepareStep(log[j])
               /\ \A k \in 1..Len(kids) : \E i \in 1..Len(log) :
                    k \in Top(log[i])
               /\ Count(log, IsSetDimensions) = 1
               /\ log[Len(log)].call = "set_dimensions"

\* A Canvas with two top-level children has been rendered; a text was
\* measured and a rectangle drawn.
C8_Witness ==
    \E cv \in Nodes :
        /\ IsCanvas(cv) /\ ret.op = "render" /\ ret.node = cv /\ ~ret.raised
        /\ Len(objs[cv].children) = 2
        /\ \E i \in 1..Len(log) : log[i].call = "text_bbox"
        /\ \E i \in 1..Len(log) : log[i].call = "rectangle"
        /\ \E i \in 1..Len(log) : log[i].call = "text"

====
